---- MODULE Spec2Model ----
(***************************************************************************)
(* Like/dislike toggle and comment counter of the SocialSpark dashboard.   *)
(* The document store is modelled as collections of documents; a write     *)
(* batch is a sequence of writes applied all-or-nothing at commit.         *)
(* toggleLike reads the likes collection with getDocs BEFORE the batch is  *)
(* committed, so a call is two steps (read+build, then commit);            *)
(* createComment builds its batch without reading and commits it.          *)
(***************************************************************************)
EXTENDS Integers, Sequences, FiniteSets, TLC

\* ---- bounds of the model ----
NumSessions == 2      \* client sessions issuing calls concurrently
MaxCalls == 3         \* calls started in one behaviour of concurrent sessions
MaxSeqCalls == 4      \* calls started in one behaviour of sequential calls
MaxApiCalls == 3      \* calls that write, in one behaviour of the interactions API
MaxTextLen == 2       \* characters in a comment text handed to addComment

\* ---- collection names (firestore.ts) ----
USERS_COLLECTION == "users"
THREADS_COLLECTION == "threads"
VIDEOS_COLLECTION == "videos"
REELS_COLLECTION == "reels"
COMMENTS_COLLECTION == "comments"
LIKES_COLLECTION == "likes"

Collections ==
  {USERS_COLLECTION, THREADS_COLLECTION, VIDEOS_COLLECTION, REELS_COLLECTION,
   COMMENTS_COLLECTION, LIKES_COLLECTION}

\* contentCollections of toggleLike: contentType -> collection
contentCollections ==
  [thread |-> THREADS_COLLECTION, video |-> VIDEOS_COLLECTION,
   reel |-> REELS_COLLECTION, comment |-> COMMENTS_COLLECTION]

\* contentCollections of createComment: no entry for "comment"
commentContentCollections ==
  [thread |-> THREADS_COLLECTION, video |-> VIDEOS_COLLECTION,
   reel |-> REELS_COLLECTION]

\* ---- inputs ----
Sessions == 1..NumSessions
UserIds == <<"uA", "uB", "uC", "uD">>   \* uids the identity provider hands out
ThreadId == 1
VideoId == 2
\* the items calls are aimed at: an existing thread, an existing video, and
\* a reel id under which no reel document exists
TheThread == [contentType |-> "thread", contentId |-> ThreadId]
TheVideo == [contentType |-> "video", contentId |-> VideoId]
NoReel == [contentType |-> "reel", contentId |-> ThreadId]
Targets == {TheThread, TheVideo, NoReel}
Texts == {"hi"}

VARIABLES
  db,       \* collection name -> (document id -> document data)
  nextId,   \* next auto-generated document id
  now,      \* server clock: the value serverTimestamp() resolves to
  pc,       \* per session: "idle" or "commit" (batch.commit() awaited)
  op,       \* per session: the operation in flight ("none" when idle)
  arg,      \* per session: likeData / commentData of the call in flight
  existing, \* per session: the ids and isLike of the docs getDocs returned
  batch,    \* per session: the writes queued on the WriteBatch
  readAt,   \* per session: server clock when getDocs / the build ran
  result,   \* per session: outcome of the last call ("none" while in flight)
  calls,    \* number of calls that built a batch
  log,      \* history: one entry per committed batch, oldest first
  currentUser, \* per session: auth.currentUser, the uid or NoUser
  ref,      \* per session: the likeRef / commentRef of the call in flight
  stats,    \* per session: what getInteractionStats last returned
  attempt   \* per session: which attempt of its call is in flight, and the
            \* store when the first attempt started

vars ==
  <<db, nextId, now, pc, op, arg, existing, batch, readAt, result, calls, log,
    currentUser, ref, stats, attempt>>

NoUser == "null"
NoRef == 0
NoAttempt == [n |-> 0, first |-> <<>>]

NoArg == [contentType |-> "none"]

\* ---- documents ----
\* a function like f, without the document id
Without(f, id) == [i \in DOMAIN f \ {id} |-> f[i]]

\* a function like f, with document id (over)written by data
With(f, id, data) == [i \in DOMAIN f \cup {id} |-> IF i = id THEN data ELSE f[i]]

\* a content item that starts with one like on its counter
NewContentOneLike(t) ==
  [likes |-> 1, dislikes |-> 0, commentCount |-> 0, createdAt |-> t, updatedAt |-> t]

\* a content item as createThread / createVideo / createReel write it
NewContent(t) ==
  [likes |-> 0, dislikes |-> 0, commentCount |-> 0, createdAt |-> t, updatedAt |-> t]

\* an absolute write in place of the relative increment: the field is set
\* to n
IncrementAbsolute(d, fld, n) ==
  [k \in DOMAIN d \cup {fld} |-> IF k = fld THEN n ELSE d[k]]

\* FieldValue.increment(n) applied to field fld of document d
Increment(d, fld, n) ==
  [k \in DOMAIN d \cup {fld} |->
     IF k = fld THEN (IF fld \in DOMAIN d THEN d[fld] ELSE 0) + n ELSE d[k]]

\* updatedAt: serverTimestamp() in an update payload
Touch(d, t) == [k \in DOMAIN d \cup {"updatedAt"} |-> IF k = "updatedAt" THEN t ELSE d[k]]

\* ---- the write batch ----
DeleteWrite(col, id) == [kind |-> "delete", col |-> col, id |-> id]
SetWrite(col, id, data) == [kind |-> "set", col |-> col, id |-> id, data |-> data]
UpdateWrite(col, id, fld, n, touch) ==
  [kind |-> "update", col |-> col, id |-> id, fld |-> fld, n |-> n, touch |-> touch]

\* one write applied to the store at server time t
ApplyWrite(d, w, t) ==
  CASE w.kind = "delete" ->
         [d EXCEPT ![w.col] = Without(@, w.id)]
    [] w.kind = "set" ->
         [d EXCEPT ![w.col] = With(@, w.id,
            [k \in DOMAIN w.data \cup {"createdAt"} \cup
                   (IF w.col = COMMENTS_COLLECTION THEN {"updatedAt"} ELSE {}) |->
               IF k \in {"createdAt", "updatedAt"} THEN t ELSE w.data[k]])]
    [] w.kind = "update" ->
         [d EXCEPT ![w.col] = With(@, w.id,
            IF w.touch THEN Touch(Increment(@[w.id], w.fld, w.n), t)
                       ELSE Increment(@[w.id], w.fld, w.n))]

RECURSIVE ApplyBatch(_, _, _)
ApplyBatch(d, ws, t) ==
  IF ws = <<>> THEN d ELSE ApplyBatch(ApplyWrite(d, Head(ws), t), Tail(ws), t)

\* an update of a document that does not exist fails the whole batch
CanCommit(d, ws) ==
  \A i \in 1..Len(ws) : ws[i].kind = "update" => ws[i].id \in DOMAIN d[ws[i].col]

\* a query that also filters on isLike: only records of the requested kind
ExistingLikesSameKind(d, likeData) ==
  LET L == d[LIKES_COLLECTION]
      ids == {i \in DOMAIN L :
                /\ L[i].contentId = likeData.contentId
                /\ L[i].contentType = likeData.contentType
                /\ L[i].userUid = likeData.userUid
                /\ L[i].isLike = likeData.isLike}
  IN [i \in ids |-> L[i]]

\* a query without the userUid filter: the records of every user for the item
ExistingLikesAnyUser(d, likeData) ==
  LET L == d[LIKES_COLLECTION]
      ids == {i \in DOMAIN L :
                /\ L[i].contentId = likeData.contentId
                /\ L[i].contentType = likeData.contentType}
  IN [i \in ids |-> L[i]]

\* ---- toggleLike ----
\* the documents getDocs(existingLikeQuery) returns: id -> data
ExistingLikes(d, likeData) ==
  LET L == d[LIKES_COLLECTION]
      ids == {i \in DOMAIN L :
                /\ L[i].contentId = likeData.contentId
                /\ L[i].contentType = likeData.contentType
                /\ L[i].userUid = likeData.userUid}
  IN [i \in ids |-> L[i]]

\* the order of existingLikes.docs: by document id
MinOf(S) == CHOOSE m \in S : \A x \in S : m <= x

\* a removal that decrements likes whatever the deleted record's isLike
RECURSIVE RemoveWritesLikesOnly(_, _, _)
RemoveWritesLikesOnly(snap, ids, likeData) ==
  IF ids = {} THEN <<>>
  ELSE LET i == MinOf(ids)
           contentCol == contentCollections[likeData.contentType]
       IN <<DeleteWrite(LIKES_COLLECTION, i),
            UpdateWrite(contentCol, likeData.contentId, "likes", -1, FALSE)>>
          \o RemoveWritesLikesOnly(snap, ids \ {i}, likeData)

\* a removal that handles the first document of the query result only
RemoveWritesFirstOnly(snap, ids, likeData) ==
  IF ids = {} THEN <<>>
  ELSE LET i == MinOf(ids)
           contentCol == contentCollections[likeData.contentType]
       IN <<DeleteWrite(LIKES_COLLECTION, i),
            UpdateWrite(contentCol, likeData.contentId,
                        IF snap[i].isLike THEN "likes" ELSE "dislikes", -1, FALSE)>>

\* existingLikes.docs.forEach: delete the doc, decrement its counter
RECURSIVE RemoveWrites(_, _, _)
RemoveWrites(snap, ids, likeData) ==
  IF ids = {} THEN <<>>
  ELSE LET i == MinOf(ids)
           contentCol == contentCollections[likeData.contentType]
       IN <<DeleteWrite(LIKES_COLLECTION, i),
            UpdateWrite(contentCol, likeData.contentId,
                        IF snap[i].isLike THEN "likes" ELSE "dislikes", -1, FALSE)>>
          \o RemoveWrites(snap, ids \ {i}, likeData)

\* a decision that always writes a new record
shouldAddNewAlways(snap, likeData) == TRUE

shouldAddNew(snap, likeData) ==
  \/ DOMAIN snap = {}
  \/ \E i \in DOMAIN snap : snap[i].isLike # likeData.isLike

\* an insert that increments likes whatever the requested isLike
AddWritesLikesOnly(likeData, likeRef) ==
  <<SetWrite(LIKES_COLLECTION, likeRef, likeData),
    UpdateWrite(contentCollections[likeData.contentType], likeData.contentId,
                "likes", 1, TRUE)>>

\* an insert that writes the record and updates no counter
AddWritesRecordOnly(likeData, likeRef) ==
  <<SetWrite(LIKES_COLLECTION, likeRef, likeData)>>

\* an insert whose counter map has no entry for comments: a reaction to a
\* comment is recorded and no counter is updated
AddWritesSkipComment(likeData, likeRef) ==
  IF likeData.contentType = "comment"
    THEN <<SetWrite(LIKES_COLLECTION, likeRef, likeData)>>
    ELSE <<SetWrite(LIKES_COLLECTION, likeRef, likeData),
           UpdateWrite(contentCollections[likeData.contentType], likeData.contentId,
                       IF likeData.isLike THEN "likes" ELSE "dislikes", 1, TRUE)>>

\* batch.set(likeRef, ...) and the counter increment with updatedAt
AddWrites(likeData, likeRef) ==
  <<SetWrite(LIKES_COLLECTION, likeRef, likeData),
    UpdateWrite(contentCollections[likeData.contentType], likeData.contentId,
                IF likeData.isLike THEN "likes" ELSE "dislikes", 1, TRUE)>>

\* a toggle that, on a switch, rewrites the found record under its own id
\* instead of deleting it and inserting a new one
ToggleBatchInPlace(snap, likeData, likeRef) ==
  IF DOMAIN snap # {} /\ shouldAddNew(snap, likeData)
    THEN <<SetWrite(LIKES_COLLECTION, MinOf(DOMAIN snap), likeData),
           UpdateWrite(contentCollections[likeData.contentType], likeData.contentId,
                       IF likeData.isLike THEN "dislikes" ELSE "likes", -1, FALSE),
           UpdateWrite(contentCollections[likeData.contentType], likeData.contentId,
                       IF likeData.isLike THEN "likes" ELSE "dislikes", 1, TRUE)>>
    ELSE RemoveWrites(snap, DOMAIN snap, likeData)
           \o (IF shouldAddNew(snap, likeData) THEN AddWrites(likeData, likeRef) ELSE <<>>)

\* everything toggleLike queues on its batch after getDocs returned snap
ToggleBatch(snap, likeData, likeRef) ==
  RemoveWrites(snap, DOMAIN snap, likeData)
    \o (IF shouldAddNew(snap, likeData) THEN AddWrites(likeData, likeRef) ELSE <<>>)

LikeData(t, u, b) ==
  [contentId |-> t.contentId, contentType |-> t.contentType, userUid |-> u, isLike |-> b]

\* a toggleLike that deletes the records it found at once (deleteDoc), so
\* only the counter updates and the insert wait on the batch
ToggleLikeReadDirectDelete(s, likeData) ==
  /\ pc[s] = "idle"
  /\ LET snap == ExistingLikes(db, likeData)
     IN /\ existing' = [existing EXCEPT ![s] = snap]
        /\ batch' = [batch EXCEPT ![s] = ToggleBatch(snap, likeData, nextId)]
        /\ nextId' = IF shouldAddNew(snap, likeData) THEN nextId + 1 ELSE nextId
        /\ db' = [db EXCEPT ![LIKES_COLLECTION] =
                    [i \in DOMAIN @ \ DOMAIN snap |-> @[i]]]
  /\ pc' = [pc EXCEPT ![s] = "commit"]
  /\ op' = [op EXCEPT ![s] = "toggleLike"]
  /\ arg' = [arg EXCEPT ![s] = likeData]
  /\ readAt' = [readAt EXCEPT ![s] = now]
  /\ result' = [result EXCEPT ![s] = "none"]
  /\ calls' = calls + 1
  /\ ref' = [ref EXCEPT ![s] = IF shouldAddNew(ExistingLikes(db, likeData), likeData)
                                 THEN nextId ELSE NoRef]
  /\ attempt' = [attempt EXCEPT ![s] = [n |-> 1, first |-> db]]
  /\ UNCHANGED <<now, log, currentUser, stats>>

\* toggleLike up to `await batch.commit()`: getDocs resolves, the batch is built
ToggleLikeRead(s, likeData) ==
  /\ pc[s] = "idle"
  /\ LET snap == ExistingLikes(db, likeData)
     IN /\ existing' = [existing EXCEPT ![s] = snap]
        /\ batch' = [batch EXCEPT ![s] = ToggleBatch(snap, likeData, nextId)]
        /\ nextId' = IF shouldAddNew(snap, likeData) THEN nextId + 1 ELSE nextId
        /\ ref' = [ref EXCEPT ![s] = IF shouldAddNew(snap, likeData) THEN nextId ELSE NoRef]
  /\ pc' = [pc EXCEPT ![s] = "commit"]
  /\ op' = [op EXCEPT ![s] = "toggleLike"]
  /\ arg' = [arg EXCEPT ![s] = likeData]
  /\ readAt' = [readAt EXCEPT ![s] = now]
  /\ result' = [result EXCEPT ![s] = "none"]
  /\ calls' = calls + 1
  /\ attempt' = [attempt EXCEPT ![s] = [n |-> 1, first |-> db]]
  /\ UNCHANGED <<db, now, log, currentUser, stats>>

\* getDocs rejects: toggleLike (whatever its likeData) throws "Failed to
\* toggle like" and nothing is committed
ToggleLikeReadFail(s) ==
  /\ pc[s] = "idle"
  /\ result' = [result EXCEPT ![s] = "error"]
  /\ UNCHANGED <<db, nextId, now, pc, op, arg, existing, batch, readAt, calls, log,
                 currentUser, ref, stats, attempt>>

\* ---- createComment ----
CommentData(t, u, x) ==
  [contentId |-> t.contentId, contentType |-> t.contentType, authorUid |-> u, text |-> x]

\* a batch that stores the comment under the id of its item, not a fresh id
CommentBatchKeyedByItem(commentData, commentRef) ==
  <<SetWrite(COMMENTS_COLLECTION, commentData.contentId,
             [k \in DOMAIN commentData \cup {"likes"} |->
                IF k = "likes" THEN 0 ELSE commentData[k]]),
    UpdateWrite(commentContentCollections[commentData.contentType],
                commentData.contentId, "commentCount", 1, TRUE)>>

\* a batch that inserts the comment and leaves the item alone
CommentBatchSetOnly(commentData, commentRef) ==
  <<SetWrite(COMMENTS_COLLECTION, commentRef,
             [k \in DOMAIN commentData \cup {"likes"} |->
                IF k = "likes" THEN 0 ELSE commentData[k]])>>

CommentBatch(commentData, commentRef) ==
  <<SetWrite(COMMENTS_COLLECTION, commentRef,
             [k \in DOMAIN commentData \cup {"likes"} |->
                IF k = "likes" THEN 0 ELSE commentData[k]]),
    UpdateWrite(commentContentCollections[commentData.contentType],
                commentData.contentId, "commentCount", 1, TRUE)>>

\* createComment up to `await batch.commit()`
CreateCommentBuild(s, commentData) ==
  /\ pc[s] = "idle"
  /\ ref' = [ref EXCEPT ![s] = nextId]
  /\ batch' = [batch EXCEPT ![s] = CommentBatch(commentData, nextId)]
  /\ nextId' = nextId + 1
  /\ existing' = [existing EXCEPT ![s] = <<>>]
  /\ pc' = [pc EXCEPT ![s] = "commit"]
  /\ op' = [op EXCEPT ![s] = "createComment"]
  /\ arg' = [arg EXCEPT ![s] = commentData]
  /\ readAt' = [readAt EXCEPT ![s] = now]
  /\ result' = [result EXCEPT ![s] = "none"]
  /\ calls' = calls + 1
  /\ attempt' = [attempt EXCEPT ![s] = [n |-> 1, first |-> db]]
  /\ UNCHANGED <<db, now, log, currentUser, stats>>

\* ---- batch.commit() ----
Settle(s, r) ==
  /\ pc' = [pc EXCEPT ![s] = "idle"]
  /\ op' = [op EXCEPT ![s] = "none"]
  /\ arg' = [arg EXCEPT ![s] = NoArg]
  /\ existing' = [existing EXCEPT ![s] = <<>>]
  /\ batch' = [batch EXCEPT ![s] = <<>>]
  /\ readAt' = [readAt EXCEPT ![s] = 0]
  /\ result' = [result EXCEPT ![s] = r]
  /\ ref' = [ref EXCEPT ![s] = NoRef]
  /\ attempt' = [attempt EXCEPT ![s] = NoAttempt]

\* the batch commits: every write lands in one step, the call resolves
CommitOk(s) ==
  /\ pc[s] = "commit"
  /\ CanCommit(db, batch[s])
  /\ now' = now + 1
  /\ db' = ApplyBatch(db, batch[s], now + 1)
  /\ log' = Append(log, [s |-> s, op |-> op[s], arg |-> arg[s], existing |-> existing[s],
                          batch |-> batch[s], readAt |-> readAt[s], at |-> now + 1,
                          pre |-> db, ret |-> ref[s], attempts |-> attempt[s].n,
                          first |-> attempt[s].first])
  /\ Settle(s, "ok")
  /\ UNCHANGED <<nextId, calls, currentUser, stats>>

\* a rejected commit whose error is caught and dropped: the call resolves
CommitFailSwallowed(s) ==
  /\ pc[s] = "commit"
  /\ Settle(s, "ok")
  /\ UNCHANGED <<db, nextId, now, calls, log, currentUser, stats>>

\* the batch is rejected (missing document, connectivity, quota): no write
\* lands, the call throws
CommitFail(s) ==
  /\ pc[s] = "commit"
  /\ Settle(s, "error")
  /\ UNCHANGED <<db, nextId, now, calls, log, currentUser, stats>>

\* ---- specifications ----
\* ids the auto-id generator has not handed out yet
FirstFreeId == VideoId + 1

Init ==
  /\ db = [c \in Collections |->
            CASE c = THREADS_COLLECTION -> (ThreadId :> NewContent(0))
              [] c = VIDEOS_COLLECTION -> (VideoId :> NewContent(0))
              [] OTHER -> <<>>]
  /\ nextId = FirstFreeId
  /\ now = 0
  /\ pc = [s \in Sessions |-> "idle"]
  /\ op = [s \in Sessions |-> "none"]
  /\ arg = [s \in Sessions |-> NoArg]
  /\ existing = [s \in Sessions |-> <<>>]
  /\ batch = [s \in Sessions |-> <<>>]
  /\ readAt = [s \in Sessions |-> 0]
  /\ result = [s \in Sessions |-> "none"]
  /\ calls = 0
  /\ log = <<>>
  /\ currentUser = [s \in Sessions |-> NoUser]
  /\ ref = [s \in Sessions |-> NoRef]
  /\ stats = [s \in Sessions |-> <<>>]
  /\ attempt = [s \in Sessions |-> NoAttempt]

Quiescent == \A s \in Sessions : pc[s] = "idle"

\* a call by user u of session s aimed at item t, up to its batch.commit()
StartCall(s, t, u) ==
  \/ \E b \in BOOLEAN : ToggleLikeRead(s, LikeData(t, u, b))
  \/ \E x \in Texts : CreateCommentBuild(s, CommentData(t, u, x))

\* concurrent sessions; one user is signed in in two sessions at once:
\* sessions 1 and 2 are uA, sessions 3 and 4 are uB
Next ==
  \/ /\ calls < MaxCalls
     /\ \E s \in Sessions, t \in {TheThread, NoReel} :
          StartCall(s, t, UserIds[(s + 1) \div 2])
  \/ \E s \in Sessions : CommitOk(s)
  \/ \E s \in Sessions : CommitFail(s)

Spec == Init /\ [][Next]_vars

\* who calls on what when calls are issued one after another: both users on
\* the thread, uA also on the video, uB on the missing reel
SeqCallers ==
  {<<TheThread, "uA">>, <<TheThread, "uB">>, <<TheVideo, "uA">>, <<NoReel, "uB">>}

\* calls issued one after another: a call starts when no batch is in flight
NextSeq ==
  \/ /\ calls < MaxSeqCalls
     /\ Quiescent
     /\ \E c \in SeqCallers : StartCall(1, c[1], c[2])
  \/ /\ Quiescent
     /\ ToggleLikeReadFail(1)
  \/ CommitOk(1)
  \/ CommitFail(1)

SpecSeq == Init /\ [][NextSeq]_vars

\* concurrent sessions of distinct users: session s is signed in as UserIds[s]
NextDistinct ==
  \/ /\ calls < MaxCalls
     /\ \E s \in Sessions, t \in {TheThread, NoReel} : StartCall(s, t, UserIds[s])
  \/ \E s \in Sessions : CommitOk(s)
  \/ \E s \in Sessions : CommitFail(s)

SpecDistinct == Init /\ [][NextDistinct]_vars

\* ======================================================================
\* Properties
\* ======================================================================
AllUsers == {UserIds[i] : i \in 1..Len(UserIds)}
Tuples == {<<t, u>> : t \in Targets, u \in AllUsers}

\* the content document a target names, in store d
ItemDoc(d, t) == d[contentCollections[t.contentType]][t.contentId]
ExistingItems(d) ==
  {t \in Targets : t.contentId \in DOMAIN d[contentCollections[t.contentType]]}

\* ids of the ReactionRecords of store d for item t
ItemLikeIds(d, t) ==
  {i \in DOMAIN d[LIKES_COLLECTION] :
     /\ d[LIKES_COLLECTION][i].contentId = t.contentId
     /\ d[LIKES_COLLECTION][i].contentType = t.contentType}
\* ... with the given isLike
LikeIds(d, t, b) == {i \in ItemLikeIds(d, t) : d[LIKES_COLLECTION][i].isLike = b}
\* ... of user u
TupleIds(d, t, u) == {i \in ItemLikeIds(d, t) : d[LIKES_COLLECTION][i].userUid = u}
\* ids of the CommentRecords of store d that reference item t
CommentIds(d, t) ==
  {i \in DOMAIN d[COMMENTS_COLLECTION] :
     /\ d[COMMENTS_COLLECTION][i].contentId = t.contentId
     /\ d[COMMENTS_COLLECTION][i].contentType = t.contentType}

UniquePerTuple(d) == \A tu \in Tuples : Cardinality(TupleIds(d, tu[1], tu[2])) <= 1

ReactionsAgree(d) ==
  \A t \in ExistingItems(d) :
    /\ ItemDoc(d, t).likes = Cardinality(LikeIds(d, t, TRUE))
    /\ ItemDoc(d, t).dislikes = Cardinality(LikeIds(d, t, FALSE))

CommentsAgree(d) ==
  \A t \in ExistingItems(d) : ItemDoc(d, t).commentCount = Cardinality(CommentIds(d, t))

\* the store right after the i-th committed batch: commits are the only
\* steps that change the store
Post(i) == IF i < Len(log) THEN log[i + 1].pre ELSE db

\* the target and the user of a logged toggleLike
TargetOf(a) == [contentType |-> a.contentType, contentId |-> a.contentId]
IsToggle(e) == e.op = "toggleLike"
SameTuple(a, b) ==
  /\ a.contentId = b.contentId
  /\ a.contentType = b.contentType
  /\ a.userUid = b.userUid

\* ---------------------------------------------------------------- C1
\* C1: calls issued one after another: whenever no call is in flight, every
\* (contentId, contentType, userUid) tuple has at most one ReactionRecord.
C1_UniqueSequential == Quiescent => UniquePerTuple(db)

\* three toggles of one user on one item, likes and dislikes mixed, have
\* settled and the tuple holds exactly one record
C1_Witness ==
  /\ Quiescent
  /\ Len(log) >= 3
  /\ \A i \in 1..3 : IsToggle(log[i]) /\ SameTuple(log[i].arg, log[1].arg)
  /\ \E i, j \in 1..3 : log[i].arg.isLike /\ ~log[j].arg.isLike
  /\ Cardinality(TupleIds(db, TargetOf(log[1].arg), log[1].arg.userUid)) = 1

\* ---------------------------------------------------------------- C2
\* C2: concurrent sessions: once all calls have settled, every tuple has at
\* most one ReactionRecord.
C2_UniqueConcurrent == Quiescent => UniquePerTuple(db)

\* ---------------------------------------------------------------- C3
\* the scenario of the specification: uA likes, uB dislikes, uA dislikes,
\* uA comments "hi", all on the thread
ScenarioCalls ==
  <<[op |-> "toggleLike", arg |-> LikeData(TheThread, "uA", TRUE)],
    [op |-> "toggleLike", arg |-> LikeData(TheThread, "uB", FALSE)],
    [op |-> "toggleLike", arg |-> LikeData(TheThread, "uA", FALSE)],
    [op |-> "createComment", arg |-> CommentData(TheThread, "uA", "hi")]>>
ScenarioCounters == <<<<1, 0, 0>>, <<1, 1, 0>>, <<0, 2, 0>>, <<0, 2, 1>>>>
Counters(doc) == <<doc.likes, doc.dislikes, doc.commentCount>>
FollowsScenario(k) ==
  /\ k <= Len(log)
  /\ \A i \in 1..k : log[i].op = ScenarioCalls[i].op /\ log[i].arg = ScenarioCalls[i].arg

\* C3: calls issued one after another: whenever no batch is in flight, likes,
\* dislikes and commentCount of every item equal the numbers of like records,
\* dislike records and comment records that reference it; and the scenario
\* gives {1,0,0}, {1,1,0}, {0,2,0}, {0,2,1}.
C3_AgreementSequential ==
  /\ Quiescent => (ReactionsAgree(db) /\ CommentsAgree(db))
  /\ \A k \in 1..4 :
       FollowsScenario(k) => Counters(ItemDoc(Post(k), TheThread)) = ScenarioCounters[k]

C3_Witness ==
  /\ Quiescent
  /\ FollowsScenario(4)
  /\ Len(log) = 4
  /\ Counters(ItemDoc(db, TheThread)) = <<0, 2, 1>>

\* ---------------------------------------------------------------- C4
\* C4: concurrent sessions: once no batch is in flight, likes and dislikes of
\* every item equal the numbers of its like and dislike records.
C4_NoDriftConcurrent == Quiescent => ReactionsAgree(db)

\* ---------------------------------------------------------------- C5
\* C5: every committed toggle decided on the tuple's records as they are at
\* its commit: what getDocs returned is what the store holds for the tuple
\* when the batch commits.
C5_DecisionNotStale ==
  \A i \in 1..Len(log) :
    IsToggle(log[i]) => log[i].existing = ExistingLikes(log[i].pre, log[i].arg)

\* ---------------------------------------------------------------- C6
CounterFields == {"likes", "dislikes", "commentCount"}

\* the sum of the increments a batch applies to field fld of document col/id
RECURSIVE BatchDelta(_, _, _, _)
BatchDelta(ws, col, id, fld) ==
  IF ws = <<>> THEN 0
  ELSE (IF Head(ws).kind = "update" /\ Head(ws).col = col /\ Head(ws).id = id
           /\ Head(ws).fld = fld
        THEN Head(ws).n ELSE 0) + BatchDelta(Tail(ws), col, id, fld)

\* the sum over the first k committed batches
RECURSIVE LoggedDelta(_, _, _, _)
LoggedDelta(k, col, id, fld) ==
  IF k = 0 THEN 0 ELSE BatchDelta(log[k].batch, col, id, fld) + LoggedDelta(k - 1, col, id, fld)

\* committed batches i and i+1 are likes of two different users on one item
\* whose likes counter was 0, and the second call read before the first
\* committed
ConcurrentLikes(i) ==
  /\ i + 1 <= Len(log)
  /\ IsToggle(log[i]) /\ IsToggle(log[i + 1])
  /\ log[i].arg.isLike /\ log[i + 1].arg.isLike
  /\ TargetOf(log[i].arg) = TargetOf(log[i + 1].arg)
  /\ log[i].arg.userUid # log[i + 1].arg.userUid
  /\ log[i + 1].readAt < log[i].at
  /\ ItemDoc(log[i].pre, TargetOf(log[i].arg)).likes = 0

\* C6: sessions of distinct users: every counter equals its initial value 0
\* plus the sum of the increments of all committed batches; a batch aimed at
\* an existing item can always commit, whatever the other sessions did; and
\* two users liking an item with likes = 0 concurrently give likes = 2 and two
\* like records, one per user.
C6_DistinctUsersNoLostUpdate ==
  /\ \A t \in ExistingItems(db) : \A f \in CounterFields :
       ItemDoc(db, t)[f] =
         LoggedDelta(Len(log), contentCollections[t.contentType], t.contentId, f)
  /\ \A s \in Sessions :
       (pc[s] = "commit" /\ TargetOf(arg[s]) \in ExistingItems(db)) => ENABLED CommitOk(s)
  /\ \A i \in 1..Len(log) :
       ConcurrentLikes(i) =>
         LET t == TargetOf(log[i].arg)
             d == Post(i + 1)
         IN /\ ItemDoc(d, t).likes = 2
            /\ Cardinality(LikeIds(d, t, TRUE)) = 2
            /\ Cardinality(TupleIds(d, t, log[i].arg.userUid)) = 1
            /\ Cardinality(TupleIds(d, t, log[i + 1].arg.userUid)) = 1

C6_Witness ==
  /\ Quiescent
  /\ Len(log) = 2
  /\ ConcurrentLikes(1)
  /\ \A s \in {1, 2} : result[s] = "ok"
  /\ ItemDoc(db, TheThread).likes = 2

\* ---------------------------------------------------------------- C7
\* committed batches i and i+1 are toggles of one user on one item with the
\* same isLike, and the tuple had no record before the first
SameTwice(i) ==
  /\ i + 1 <= Len(log)
  /\ IsToggle(log[i]) /\ IsToggle(log[i + 1])
  /\ log[i].arg = log[i + 1].arg
  /\ TupleIds(log[i].pre, TargetOf(log[i].arg), log[i].arg.userUid) = {}

HasSet(ws) == \E k \in 1..Len(ws) : ws[k].kind = "set"
Deletes(ws) == {ws[k].id : k \in {n \in 1..Len(ws) : ws[n].kind = "delete"}}

\* C7: calls issued one after another: the same toggle twice in a row, from
\* no record, leaves no record for the tuple and likes and dislikes as they
\* were before the first call; the second batch deletes the record the
\* first inserted and inserts nothing.
C7_ToggleTwice ==
  \A i \in 1..Len(log) :
    SameTwice(i) =>
      LET a == log[i].arg
          t == TargetOf(a)
      IN /\ TupleIds(Post(i + 1), t, a.userUid) = {}
         /\ ItemDoc(Post(i + 1), t).likes = ItemDoc(log[i].pre, t).likes
         /\ ItemDoc(Post(i + 1), t).dislikes = ItemDoc(log[i].pre, t).dislikes
         /\ Deletes(log[i + 1].batch) = TupleIds(Post(i), t, a.userUid)
         /\ Cardinality(Deletes(log[i + 1].batch)) = 1
         /\ ~HasSet(log[i + 1].batch)

\* both a like twice and a dislike twice have happened
C7_Witness ==
  /\ Quiescent
  /\ \E i \in 1..Len(log) : SameTwice(i) /\ log[i].arg.isLike
  /\ \E i \in 1..Len(log) : SameTwice(i) /\ ~log[i].arg.isLike

\* ---------------------------------------------------------------- C8
\* committed batches i and i+1: like, then dislike, one user, one item, from
\* no record
LikeThenDislike(i) ==
  /\ i + 1 <= Len(log)
  /\ IsToggle(log[i]) /\ IsToggle(log[i + 1])
  /\ SameTuple(log[i].arg, log[i + 1].arg)
  /\ log[i].arg.isLike /\ ~log[i + 1].arg.isLike
  /\ TupleIds(log[i].pre, TargetOf(log[i].arg), log[i].arg.userUid) = {}

\* committed batch i is a like requested while the user held one dislike
LikeOverDislike(i) ==
  /\ IsToggle(log[i])
  /\ log[i].arg.isLike
  /\ LET ids == TupleIds(log[i].pre, TargetOf(log[i].arg), log[i].arg.userUid)
     IN /\ Cardinality(ids) = 1
        /\ \A k \in ids : ~log[i].pre[LIKES_COLLECTION][k].isLike

\* C8: calls issued one after another: like then dislike, from no record,
\* leaves exactly one record for the tuple, a dislike, likes as before the
\* sequence and dislikes one higher; a like requested over a held dislike
\* deletes the dislike (dislikes - 1) and inserts a like (likes + 1) in one
\* batch.
C8_Switch ==
  /\ \A i \in 1..Len(log) :
       LikeThenDislike(i) =>
         LET a == log[i].arg
             t == TargetOf(a)
             d == Post(i + 1)
             ids == TupleIds(d, t, a.userUid)
         IN /\ Cardinality(ids) = 1
            /\ \A k \in ids : ~d[LIKES_COLLECTION][k].isLike
            /\ ItemDoc(d, t).likes = ItemDoc(log[i].pre, t).likes
            /\ ItemDoc(d, t).dislikes = ItemDoc(log[i].pre, t).dislikes + 1
  /\ \A i \in 1..Len(log) :
       LikeOverDislike(i) =>
         LET a == log[i].arg
             t == TargetOf(a)
             old == TupleIds(log[i].pre, t, a.userUid)
             new == TupleIds(Post(i), t, a.userUid)
         IN /\ Cardinality(new) = 1
            /\ new \cap old = {}
            /\ \A k \in new : Post(i)[LIKES_COLLECTION][k].isLike
            /\ ItemDoc(Post(i), t).dislikes = ItemDoc(log[i].pre, t).dislikes - 1
            /\ ItemDoc(Post(i), t).likes = ItemDoc(log[i].pre, t).likes + 1

C8_Witness ==
  /\ Quiescent
  /\ \E i \in 1..Len(log) : LikeThenDislike(i)
  /\ \E i \in 1..Len(log) : LikeOverDislike(i)

\* ---------------------------------------------------------------- C9
FieldOr0(d, col, id, fld) ==
  IF id \in DOMAIN d[col] /\ fld \in DOMAIN d[col][id] THEN d[col][id][fld] ELSE 0

\* the documents a batch names
Named(ws) == {<<ws[k].col, ws[k].id>> : k \in 1..Len(ws)}

\* every write of the batch ws is in store e, which otherwise equals store d
AllLanded(d, e, ws) ==
  /\ \A k \in 1..Len(ws) :
       LET w == ws[k]
       IN CASE w.kind = "delete" -> w.id \notin DOMAIN e[w.col]
            [] w.kind = "set" ->
                 /\ w.id \in DOMAIN e[w.col]
                 /\ \A f \in DOMAIN w.data : e[w.col][w.id][f] = w.data[f]
            [] w.kind = "update" ->
                 /\ w.id \in DOMAIN d[w.col]
                 /\ w.id \in DOMAIN e[w.col]
                 /\ e[w.col][w.id][w.fld] =
                      FieldOr0(d, w.col, w.id, w.fld) + BatchDelta(ws, w.col, w.id, w.fld)
  /\ \A c \in Collections :
       \A i \in DOMAIN d[c] \cup DOMAIN e[c] :
         <<c, i>> \notin Named(ws) =>
           (i \in DOMAIN d[c] /\ i \in DOMAIN e[c] /\ d[c][i] = e[c][i])

\* C9: a batch whose commit fails changes nothing in the store, and the
\* store changes only by a whole batch landing: after any step that changes
\* it, all deletes, all increments and the insert of one committed batch are
\* in, and every other document is as before.
C9_AtomicBatch ==
  [][/\ \A s \in Sessions : (pc[s] = "commit" /\ result'[s] = "error") => db' = db
     /\ db' # db =>
          \E s \in Sessions :
            /\ pc[s] = "commit"
            /\ result'[s] = "ok"
            /\ AllLanded(db, db', batch[s])]_vars

\* a commit has failed and a switch batch (delete, decrement, insert,
\* increment) has landed
C9_Witness ==
  /\ \E s \in Sessions : result[s] = "error" /\ pc[s] = "idle"
  /\ \E i \in 1..Len(log) : IsToggle(log[i]) /\ Len(log[i].batch) = 4

\* ---------------------------------------------------------------- C10
\* C10: in every reachable state likes, dislikes and commentCount of every
\* item are >= 0.
C10_NonNegative ==
  \A t \in ExistingItems(db) : \A f \in CounterFields : ItemDoc(db, t)[f] >= 0

\* ======================================================================
\* The interactions API (interactions.ts) over the store operations
\* ======================================================================
\* ---- comment texts: strings as sequences of characters ----
Chars == {" ", "a"}
ApiTexts == UNION {[1..n -> Chars] : n \in 0..MaxTextLen}
IsSpace(c) == c \in {" ", "\t", "\n", "\r"}

\* a text handed on as it came
trimNone(x) == x

RECURSIVE trimStart(_)
trimStart(x) == IF x # <<>> /\ IsSpace(Head(x)) THEN trimStart(Tail(x)) ELSE x
RECURSIVE trimEnd(_)
trimEnd(x) ==
  IF x # <<>> /\ IsSpace(x[Len(x)]) THEN trimEnd(SubSeq(x, 1, Len(x) - 1)) ELSE x

\* String.prototype.trim(): whitespace stripped at both ends
trim(x) == trimEnd(trimStart(x))

\* ---- outcomes of a call, besides "ok" and "error" ----
AuthError == "auth"              \* "User must be authenticated to ..."
ValidationError == "validation"  \* "Comment text cannot be empty"
NotFound == "notfound"           \* "Content not found"
StatsReturned == "stats"         \* getInteractionStats resolved
Created == "created"             \* createThread / createVideo / createReel resolved

\* the call of session s throws before it has built a batch
Throw(s, r) ==
  /\ result' = [result EXCEPT ![s] = r]
  /\ UNCHANGED <<db, nextId, now, pc, op, arg, existing, batch, readAt, calls, log,
                 currentUser, ref, stats, attempt>>

\* ---- auth.ts ----
\* signInAnonymouslyUser: the identity provider signs uid u in; the profile is
\* looked up and, when missing, written with updateDoc, which the store
\* rejects for a missing document in the first call and in the catch alike
signInAnonymouslyUser(s, u) ==
  /\ pc[s] = "idle"
  /\ currentUser' = [currentUser EXCEPT ![s] = u]
  /\ result' = [result EXCEPT ![s] =
                  IF u \in DOMAIN db[USERS_COLLECTION] THEN "ok" ELSE "error"]
  /\ UNCHANGED <<db, nextId, now, pc, op, arg, existing, batch, readAt, calls, log,
                 ref, stats, attempt>>

signOutUser(s) ==
  /\ currentUser[s] # NoUser
  /\ currentUser' = [currentUser EXCEPT ![s] = NoUser]
  /\ UNCHANGED <<db, nextId, now, pc, op, arg, existing, batch, readAt, result, calls,
                 log, ref, stats, attempt>>

\* ---- likeContent / dislikeContent ----
\* the call goes to toggleLike whoever is, or is not, signed in
ReactUnchecked(s, t, b) ==
  /\ pc[s] = "idle"
  /\ \/ ToggleLikeRead(s, LikeData(t, currentUser[s], b))
     \/ ToggleLikeReadFail(s)

\* a call that records the reaction under the first uid, whoever is signed in
ReactAsFirstUser(s, t, b) ==
  /\ pc[s] = "idle"
  /\ IF currentUser[s] = NoUser
       THEN Throw(s, AuthError)
       ELSE \/ ToggleLikeRead(s, LikeData(t, UserIds[1], b))
            \/ ToggleLikeReadFail(s)

\* getCurrentUser(), the null test, then firestoreToggleLike(likeData)
React(s, t, b) ==
  /\ pc[s] = "idle"
  /\ IF currentUser[s] = NoUser
       THEN Throw(s, AuthError)
       ELSE \/ ToggleLikeRead(s, LikeData(t, currentUser[s], b))
            \/ ToggleLikeReadFail(s)

likeContent(s, t) == React(s, t, TRUE)
dislikeContent(s, t) == React(s, t, FALSE)

\* ---- addComment ----
\* parentCommentId as addComment receives it: left out (undefined), or the id
\* of the comment replied to
Undefined == "undefined"
ParentCommentIds == {Undefined, "c0"}

\* { contentId, contentType, authorUid, text, parentCommentId }
AddCommentData(t, u, x, parent) ==
  [k \in DOMAIN CommentData(t, u, x) \cup {"parentCommentId"} |->
     IF k = "parentCommentId" THEN parent ELSE CommentData(t, u, x)[k]]

\* createComment as addComment calls it: batch.set throws on a field whose
\* value is undefined (the store is opened without ignoreUndefinedProperties),
\* the catch rethrows "Failed to create comment" and no batch is committed
createComment(s, commentData) ==
  /\ pc[s] = "idle"
  /\ IF commentData.parentCommentId = Undefined
       THEN Throw(s, "error")
       ELSE CreateCommentBuild(s, commentData)

addComment(s, t, text, parent) ==
  /\ pc[s] = "idle"
  /\ IF currentUser[s] = NoUser
       THEN Throw(s, AuthError)
       ELSE IF trim(text) = <<>>
              THEN Throw(s, ValidationError)
              ELSE createComment(s, AddCommentData(t, currentUser[s], trim(text), parent))

\* ---- getContent / getInteractionStats ----
\* the collections map of getContent: no entry for "comment"
getContentCollections ==
  [thread |-> THREADS_COLLECTION, video |-> VIDEOS_COLLECTION,
   reel |-> REELS_COLLECTION]

\* getContent: the document under (contentType, id), or NoContent
NoContent == <<>>
getContent(d, contentType, id) ==
  IF id \in DOMAIN d[getContentCollections[contentType]]
    THEN d[getContentCollections[contentType]][id]
    ELSE NoContent

\* content.f || 0
OrZero(content, f) == IF f \in DOMAIN content /\ content[f] # 0 THEN content[f] ELSE 0

\* { likes, dislikes, comments } as getInteractionStats returns them
StatsOf(content) ==
  <<OrZero(content, "likes"), OrZero(content, "dislikes"), OrZero(content, "commentCount")>>

\* a getInteractionStats that answers zeros for an item it does not find
getInteractionStatsLenient(s, t) ==
  /\ pc[s] = "idle"
  /\ \/ Throw(s, "error")
     \/ /\ result' = [result EXCEPT ![s] = StatsReturned]
        /\ stats' = [stats EXCEPT ![s] =
                       StatsOf(getContent(db, t.contentType, t.contentId))]
        /\ UNCHANGED <<db, nextId, now, pc, op, arg, existing, batch, readAt, calls,
                       log, currentUser, ref, attempt>>

\* a getInteractionStats that counts the records of the likes and comments
\* collections instead of reading the item's counters
getInteractionStatsCounting(s, t) ==
  /\ pc[s] = "idle"
  /\ \/ Throw(s, "error")
     \/ IF getContent(db, t.contentType, t.contentId) = NoContent
          THEN Throw(s, NotFound)
          ELSE /\ result' = [result EXCEPT ![s] = StatsReturned]
               /\ stats' = [stats EXCEPT ![s] =
                              <<Cardinality(LikeIds(db, t, TRUE)),
                                Cardinality(LikeIds(db, t, FALSE)),
                                Cardinality(CommentIds(db, t))>>]
               /\ UNCHANGED <<db, nextId, now, pc, op, arg, existing, batch, readAt,
                              calls, log, currentUser, ref, attempt>>

\* getInteractionStats: getDoc rejects, or finds nothing, or finds the item
getInteractionStats(s, t) ==
  /\ pc[s] = "idle"
  /\ \/ Throw(s, "error")
     \/ IF getContent(db, t.contentType, t.contentId) = NoContent
          THEN Throw(s, NotFound)
          ELSE /\ result' = [result EXCEPT ![s] = StatsReturned]
               /\ stats' = [stats EXCEPT ![s] =
                              StatsOf(getContent(db, t.contentType, t.contentId))]
               /\ UNCHANGED <<db, nextId, now, pc, op, arg, existing, batch, readAt,
                              calls, log, currentUser, ref, attempt>>

\* ---- createThread / createVideo / createReel ----
\* a content creation that writes under the id of the first thread instead
\* of a fresh one
CreateContentFixedId(s, col) ==
  /\ pc[s] = "idle"
  /\ db' = [db EXCEPT ![col] = With(@, ThreadId, NewContent(now + 1))]
  /\ nextId' = nextId + 1
  /\ now' = now + 1
  /\ calls' = calls + 1
  /\ result' = [result EXCEPT ![s] = Created]
  /\ UNCHANGED <<pc, op, arg, existing, batch, readAt, log, currentUser, ref, stats,
                 attempt>>

\* addDoc(collection(db, col), {..., likes: 0, dislikes: 0, commentCount: 0,
\* createdAt, updatedAt}): a new document under a fresh id
CreateContent(s, col) ==
  /\ pc[s] = "idle"
  /\ db' = [db EXCEPT ![col] = With(@, nextId, NewContent(now + 1))]
  /\ nextId' = nextId + 1
  /\ now' = now + 1
  /\ calls' = calls + 1
  /\ result' = [result EXCEPT ![s] = Created]
  /\ UNCHANGED <<pc, op, arg, existing, batch, readAt, log, currentUser, ref, stats,
                 attempt>>

createThread(s) == CreateContent(s, THREADS_COLLECTION)
createVideo(s) == CreateContent(s, VIDEOS_COLLECTION)
createReel(s) == CreateContent(s, REELS_COLLECTION)

\* ---- updateUserProfile ----
\* updateDoc on users/uid: rejected when the profile document is missing
updateUserProfile(s, uid) ==
  /\ pc[s] = "idle"
  /\ IF uid \in DOMAIN db[USERS_COLLECTION]
       THEN /\ db' = [db EXCEPT ![USERS_COLLECTION] = With(@, uid, Touch(@[uid], now + 1))]
            /\ now' = now + 1
            /\ result' = [result EXCEPT ![s] = "ok"]
            /\ UNCHANGED <<nextId, pc, op, arg, existing, batch, readAt, calls, log,
                           currentUser, ref, stats, attempt>>
       ELSE Throw(s, "error")

\* ---- one client driving the API ----
TheClient == 1
\* the items the client's calls are aimed at: the threads there are, and the
\* reel id under which there is no reel
ApiTargets ==
  {[contentType |-> "thread", contentId |-> i] : i \in DOMAIN db[THREADS_COLLECTION]}
    \cup {NoReel}

NextApi ==
  \/ signInAnonymouslyUser(TheClient, UserIds[1])
  \/ signOutUser(TheClient)
  \/ /\ calls < MaxApiCalls
     /\ \E t \in ApiTargets : likeContent(TheClient, t)
  \/ /\ calls < MaxApiCalls
     /\ \E t \in ApiTargets : dislikeContent(TheClient, t)
  \/ /\ calls < MaxApiCalls
     /\ \E t \in ApiTargets, text \in ApiTexts, parent \in ParentCommentIds :
          addComment(TheClient, t, text, parent)
  \/ CommitOk(TheClient)
  \/ CommitFail(TheClient)

SpecApi == Init /\ [][NextApi]_vars

\* ---- one client driving the store operations, reads and other writers ----
NextOps ==
  \/ /\ calls < MaxApiCalls
     /\ \E t \in ApiTargets : StartCall(TheClient, t, UserIds[1])
  \/ ToggleLikeReadFail(TheClient)
  \/ \E t \in ApiTargets : getInteractionStats(TheClient, t)
  \/ /\ calls < MaxApiCalls
     /\ createThread(TheClient)
  \/ /\ calls < MaxApiCalls
     /\ createVideo(TheClient)
  \/ /\ calls < MaxApiCalls
     /\ createReel(TheClient)
  \/ updateUserProfile(TheClient, UserIds[1])
  \/ CommitOk(TheClient)
  \/ CommitFail(TheClient)

SpecOps == Init /\ [][NextOps]_vars

\* ---- sessions of one user toggle on the thread; the first also reads
\* its stats ----
NextStats ==
  \/ /\ calls < MaxCalls
     /\ \E s \in Sessions, b \in BOOLEAN :
          ToggleLikeRead(s, LikeData(TheThread, UserIds[1], b))
  \/ getInteractionStats(TheClient, TheThread)
  \/ \E s \in Sessions : CommitOk(s)
  \/ \E s \in Sessions : CommitFail(s)

SpecStats == Init /\ [][NextStats]_vars

\* ======================================================================
\* Properties of the API
\* ======================================================================
\* a text that is empty or whitespace only
IsBlank(text) == \A i \in 1..Len(text) : IsSpace(text[i])
BlankTexts == {text \in ApiTexts : IsBlank(text)}

\* ---------------------------------------------------------------- C11
\* C11: a step that is a signed-in addComment with a text that is empty or
\* whitespace only is a step in which the call throws the validation error,
\* no batch is started, and the whole store (so the comments collection and
\* every field of the target) stays as it was.
C11_EmptyCommentRejected ==
  [][currentUser[TheClient] # NoUser
     => LET Rejected ==
              /\ result'[TheClient] = ValidationError
              /\ pc'[TheClient] = "idle"
              /\ db' = db
              /\ batch' = batch
              /\ log' = log
        IN \/ Rejected
           \/ \A t \in ApiTargets, text \in BlankTexts, parent \in ParentCommentIds :
                ~addComment(TheClient, t, text, parent)]_vars

\* a whitespace-only comment was turned down after a comment had been counted
\* on the thread, whose commentCount is still that one comment
C11_Witness ==
  /\ result[TheClient] = ValidationError
  /\ currentUser[TheClient] # NoUser
  /\ db[THREADS_COLLECTION][ThreadId].commentCount = 1
  /\ Cardinality(DOMAIN db[COMMENTS_COLLECTION]) = 1

\* ---------------------------------------------------------------- C12
\* C12: when an addComment resolves, its one commit step has added exactly
\* one comment document, which references the target, carries the trimmed
\* text and has the id the call returns; the same step has raised the
\* target's commentCount by one and set its updatedAt to the commit time;
\* the target's likes and dislikes, the older comments and the likes
\* collection are as before.
C12_CommentAppend ==
  [][(/\ pc[TheClient] = "commit"
      /\ op[TheClient] = "createComment"
      /\ result'[TheClient] = "ok")
     => LET t == TargetOf(arg[TheClient])
            old == db[COMMENTS_COLLECTION]
            new == db'[COMMENTS_COLLECTION]
            added == DOMAIN new \ DOMAIN old
        IN /\ Cardinality(added) = 1
           /\ \A c \in added :
                /\ new[c].contentId = t.contentId
                /\ new[c].contentType = t.contentType
                /\ new[c].text = arg[TheClient].text
                /\ new[c].authorUid = arg[TheClient].authorUid
                /\ log'[Len(log')].ret = c
           /\ \A c \in DOMAIN old : c \in DOMAIN new /\ new[c] = old[c]
           /\ db'[LIKES_COLLECTION] = db[LIKES_COLLECTION]
           /\ t.contentId \in DOMAIN db[contentCollections[t.contentType]]
           /\ ItemDoc(db', t).commentCount = ItemDoc(db, t).commentCount + 1
           /\ ItemDoc(db', t).updatedAt = now'
           /\ ItemDoc(db', t).updatedAt > ItemDoc(db, t).updatedAt
           /\ ItemDoc(db', t).likes = ItemDoc(db, t).likes
           /\ ItemDoc(db', t).dislikes = ItemDoc(db, t).dislikes
           /\ ItemDoc(db', t).createdAt = ItemDoc(db, t).createdAt]_vars

\* an addComment that replies to a comment resolved on a thread that had a
\* like: the like is still counted and the returned id names a stored comment
C12_Witness ==
  \E i \in 1..Len(log) :
    /\ log[i].op = "createComment"
    /\ log[i].arg.parentCommentId # Undefined
    /\ log[i].arg.text = <<"a">>
    /\ ItemDoc(log[i].pre, TargetOf(log[i].arg)).likes = 1
    /\ ItemDoc(Post(i), TargetOf(log[i].arg)).likes = 1
    /\ log[i].ret \in DOMAIN Post(i)[COMMENTS_COLLECTION]

\* ---------------------------------------------------------------- C13
\* the uid a likeData / commentData carries
UserOf(a) == IF "userUid" \in DOMAIN a THEN a.userUid ELSE a.authorUid

\* C13: with nobody signed in, a step that is a likeContent, dislikeContent
\* or addComment is a step in which the call throws the authentication
\* error: no query result is taken, no batch is built, no id is drawn and
\* the store is as before; and no step puts a call in flight, or commits a
\* batch, that carries the unset user.
C13_AuthRequired ==
  [][/\ \A s \in Sessions : pc'[s] = "commit" => UserOf(arg'[s]) # NoUser
     /\ Len(log') > Len(log) => UserOf(log'[Len(log')].arg) # NoUser
     /\ currentUser[TheClient] = NoUser
          => LET Refused ==
                   /\ result'[TheClient] = AuthError
                   /\ UNCHANGED <<db, nextId, now, pc, op, arg, existing, batch, readAt,
                                  calls, log, ref>>
             IN \/ Refused
                \/ /\ \A t \in ApiTargets :
                        ~likeContent(TheClient, t) /\ ~dislikeContent(TheClient, t)
                   /\ \A t \in ApiTargets, text \in ApiTexts,
                         parent \in ParentCommentIds :
                        ~addComment(TheClient, t, text, parent)]_vars

\* the user liked the thread, signed out, and the next call was turned down
\* with the authentication error: the like is still there
C13_Witness ==
  /\ currentUser[TheClient] = NoUser
  /\ result[TheClient] = AuthError
  /\ db[THREADS_COLLECTION][ThreadId].likes = 1
  /\ calls = 1

\* ---------------------------------------------------------------- C14
\* C14: a getInteractionStats that resolves has found the item and returns
\* its stored likes, dislikes and commentCount, in that order; one that
\* throws the not-found error was aimed at an item that does not exist; and
\* aimed at an item that does not exist, it never resolves.
C14_StatsRead ==
  [][\A t \in ApiTargets :
       getInteractionStats(TheClient, t)
       => LET there == t.contentId \in DOMAIN db[contentCollections[t.contentType]]
          IN /\ result'[TheClient] = StatsReturned
                  => /\ there
                     /\ stats'[TheClient] = Counters(ItemDoc(db, t))
             /\ result'[TheClient] = NotFound => ~there
             /\ ~there => result'[TheClient] \in {NotFound, "error"}
             /\ result'[TheClient] \in {StatsReturned, NotFound, "error"}]_vars

\* the stats of the thread were read after a like, a dislike-free history and
\* a comment: 1, 0, 1
C14_Witness ==
  /\ result[TheClient] = StatsReturned
  /\ stats[TheClient] = <<1, 0, 1>>
  /\ Counters(db[THREADS_COLLECTION][ThreadId]) = <<1, 0, 1>>

\* ---------------------------------------------------------------- C15
\* the store without its likes and comments collections
WithoutRecords(d) ==
  [d EXCEPT ![LIKES_COLLECTION] = <<>>, ![COMMENTS_COLLECTION] = <<>>]

\* C15: a getInteractionStats step changes nothing but what the call
\* returns: the store, the clock, the id generator, the batches in flight
\* and the history are as before; and what it returns is what it would
\* return from the same store with the likes and comments collections
\* emptied, so no record of either collection enters the answer.
C15_StatsPureRead ==
  [][getInteractionStats(TheClient, TheThread)
       => /\ UNCHANGED <<db, nextId, now, pc, op, arg, existing, batch, readAt, calls,
                         log, currentUser, ref, attempt>>
          /\ result'[TheClient] = StatsReturned
               => stats'[TheClient] =
                    StatsOf(getContent(WithoutRecords(db), TheThread.contentType,
                                       TheThread.contentId))]_vars

\* stats were returned from a store whose likes collection holds no record
\* while the thread's likes counter stands at -1 (two sessions of one user
\* took the same like back): the answer is the counter
C15_Witness ==
  /\ result[TheClient] = StatsReturned
  /\ stats[TheClient] = <<-1, 0, 0>>
  /\ db[LIKES_COLLECTION] = <<>>
  /\ Quiescent

\* ======================================================================
\* A caller that retries a call whose commit was rejected
\* ======================================================================
\* the batch the call (o, a) builds from store d, with r as its new document
BatchOf(d, o, a, r) ==
  IF o = "toggleLike" THEN ToggleBatch(ExistingLikes(d, a), a, r) ELSE CommentBatch(a, r)

\* the id the call (o, a) draws from the generator when it builds on store d
DrawsId(d, o, a) == o = "createComment" \/ shouldAddNew(ExistingLikes(d, a), a)

\* a retry that queues the writes of the new attempt behind those of the
\* rejected one
RetryAfterFailSameBatch(s) ==
  /\ pc[s] = "commit"
  /\ existing' = [existing EXCEPT ![s] =
                    IF op[s] = "toggleLike" THEN ExistingLikes(db, arg[s]) ELSE <<>>]
  /\ batch' = [batch EXCEPT ![s] = @ \o BatchOf(db, op[s], arg[s], nextId)]
  /\ ref' = [ref EXCEPT ![s] = IF DrawsId(db, op[s], arg[s]) THEN nextId ELSE NoRef]
  /\ nextId' = IF DrawsId(db, op[s], arg[s]) THEN nextId + 1 ELSE nextId
  /\ readAt' = [readAt EXCEPT ![s] = now]
  /\ calls' = calls + 1
  /\ attempt' = [attempt EXCEPT ![s].n = @ + 1]
  /\ UNCHANGED <<db, now, pc, op, arg, result, log, currentUser, stats>>

\* batch.commit() rejects, the call throws, and the caller calls again with
\* the same arguments: toggleLike queries anew and builds a new batch,
\* createComment builds a new batch
RetryAfterFail(s) ==
  /\ pc[s] = "commit"
  /\ existing' = [existing EXCEPT ![s] =
                    IF op[s] = "toggleLike" THEN ExistingLikes(db, arg[s]) ELSE <<>>]
  /\ batch' = [batch EXCEPT ![s] = BatchOf(db, op[s], arg[s], nextId)]
  /\ ref' = [ref EXCEPT ![s] = IF DrawsId(db, op[s], arg[s]) THEN nextId ELSE NoRef]
  /\ nextId' = IF DrawsId(db, op[s], arg[s]) THEN nextId + 1 ELSE nextId
  /\ readAt' = [readAt EXCEPT ![s] = now]
  /\ calls' = calls + 1
  /\ attempt' = [attempt EXCEPT ![s].n = @ + 1]
  /\ UNCHANGED <<db, now, pc, op, arg, result, log, currentUser, stats>>

\* calls issued one after another, each retried until it commits
NextRetry ==
  \/ /\ calls < MaxSeqCalls
     /\ Quiescent
     /\ \E c \in SeqCallers : StartCall(TheClient, c[1], c[2])
  \/ /\ calls < MaxSeqCalls
     /\ RetryAfterFail(TheClient)
  \/ CommitOk(TheClient)

SpecRetry == Init /\ [][NextRetry]_vars

\* ---------------------------------------------------------------- C16
\* the store a single call of logged entry e leaves when it is made on the
\* store of e's first attempt and commits at once (with e's document id)
SingleCall(e) == ApplyBatch(e.first, BatchOf(e.first, e.op, e.arg, e.ret), e.at)

\* C16: when a call is retried after each rejected commit until an attempt
\* commits, the store after that commit (likes, comments, every counter and
\* timestamp) is the store one call that commits at its first attempt would
\* have left, however many attempts were rejected.
C16_RetrySafe ==
  \A i \in 1..Len(log) : Post(i) = SingleCall(log[i])

\* a toggle that found the user's earlier record committed at its third
\* attempt
C16_Witness ==
  \E i \in 1..Len(log) :
    /\ IsToggle(log[i])
    /\ log[i].attempts = 3
    /\ log[i].existing # <<>>

\* ---------------------------------------------------------------- C17
\* C17: every committed toggleLike or createComment batch that changes a
\* counter of its target also sets the target's updatedAt to the commit time.
C17_UpdatedAtBumped ==
  \A i \in 1..Len(log) :
    LET t == TargetOf(log[i].arg)
    IN Counters(ItemDoc(Post(i), t)) # Counters(ItemDoc(log[i].pre, t))
         => ItemDoc(Post(i), t).updatedAt = log[i].at

\* ---------------------------------------------------------------- C18
ContentCollections == {THREADS_COLLECTION, VIDEOS_COLLECTION, REELS_COLLECTION}

\* C18: once a content item is stored it stays stored, and a step changes
\* its likes, dislikes or commentCount only if it is the commit of a
\* toggleLike or createComment batch aimed at that very item; content
\* creation, profile updates, stats reads and rejected commits leave the
\* counters of every stored item as they are.
C18_ExclusiveWriters ==
  [][\A col \in ContentCollections : \A id \in DOMAIN db[col] :
       /\ id \in DOMAIN db'[col]
       /\ Counters(db'[col][id]) # Counters(db[col][id])
            => \E s \in Sessions :
                 /\ pc[s] = "commit"
                 /\ op[s] \in {"toggleLike", "createComment"}
                 /\ result'[s] = "ok"
                 /\ contentCollections[arg[s].contentType] = col
                 /\ arg[s].contentId = id]_vars

\* a second thread was created after the first had been liked and commented
\* on: the first keeps its counters, the new one starts at zero
C18_Witness ==
  /\ Counters(db[THREADS_COLLECTION][ThreadId]) = <<1, 0, 1>>
  /\ \E id \in DOMAIN db[THREADS_COLLECTION] :
       /\ id # ThreadId
       /\ Counters(db[THREADS_COLLECTION][id]) = <<0, 0, 0>>
       /\ db[THREADS_COLLECTION][id].createdAt > db[THREADS_COLLECTION][ThreadId].updatedAt

\* ---------------------------------------------------------------- C19
\* C19: a call whose batch awaits its commit ends in one step, without
\* building another batch: either every write of the batch lands, the
\* history grows by this batch and the call resolves, or nothing lands and
\* the call throws; and no call resolves as committed in any other step (a
\* step of an idle session changes the store only by creating content).
C19_NoSwallowedFailure ==
  [][\A s \in Sessions :
       /\ pc[s] = "commit"
            => /\ pc'[s] = "idle"
               /\ calls' = calls
               /\ nextId' = nextId
               /\ \/ /\ result'[s] = "ok"
                     /\ CanCommit(db, batch[s])
                     /\ db' = ApplyBatch(db, batch[s], now')
                     /\ Len(log') = Len(log) + 1
                     /\ log'[Len(log')].batch = batch[s]
                  \/ /\ result'[s] = "error"
                     /\ db' = db
                     /\ log' = log
       /\ pc[s] = "idle" /\ result'[s] # result[s]
            => /\ result'[s] # "ok"
               /\ db' # db => result'[s] = Created]_vars

\* three batches were built, one was committed and two were rejected: the
\* last call threw and the store holds the one committed batch
C19_Witness ==
  /\ result[TheClient] = "error"
  /\ calls = 3
  /\ Len(log) = 1
  /\ Quiescent
  /\ db = ApplyBatch(log[1].pre, log[1].batch, log[1].at)
  /\ DOMAIN db[THREADS_COLLECTION] = {ThreadId}
  /\ DOMAIN db[VIDEOS_COLLECTION] = {VideoId}
  /\ db[REELS_COLLECTION] = <<>>

\* ======================================================================
\* Reactions to comments
\* ======================================================================
CommentTarget(c) == [contentType |-> "comment", contentId |-> c]
\* the comments there are, and a comment id under which there is no comment
CommentTargets ==
  {CommentTarget(c) : c \in DOMAIN db[COMMENTS_COLLECTION]} \cup {CommentTarget(ThreadId)}

\* comments on the thread and reactions to comments, one call after another
NextComment ==
  \/ /\ calls < MaxSeqCalls
     /\ Quiescent
     /\ \E x \in Texts : CreateCommentBuild(TheClient, CommentData(TheThread, UserIds[1], x))
  \/ /\ calls < MaxSeqCalls
     /\ Quiescent
     /\ \E t \in CommentTargets, u \in {UserIds[1], UserIds[2]}, b \in BOOLEAN :
          ToggleLikeRead(TheClient, LikeData(t, u, b))
  \/ CommitOk(TheClient)
  \/ CommitFail(TheClient)

SpecComment == Init /\ [][NextComment]_vars

\* ---------------------------------------------------------------- C20
\* C20: whenever no call is in flight, the likes counter of every stored
\* comment equals the number of records of the likes collection that
\* reference the comment with contentType "comment" and isLike = TRUE, and
\* is not negative.
C20_CommentLikes ==
  Quiescent =>
    \A c \in DOMAIN db[COMMENTS_COLLECTION] :
      /\ db[COMMENTS_COLLECTION][c].likes
           = Cardinality(LikeIds(db, CommentTarget(c), TRUE))
      /\ db[COMMENTS_COLLECTION][c].likes >= 0

\* a comment liked by one user and disliked by another, the dislike after
\* that user's own like had been replaced: one like is counted
C20_Witness ==
  /\ Quiescent
  /\ \E c \in DOMAIN db[COMMENTS_COLLECTION] :
       /\ db[COMMENTS_COLLECTION][c].likes = 1
       /\ Cardinality(LikeIds(db, CommentTarget(c), FALSE)) = 1
       /\ \E i \in 1..Len(log) :
            /\ IsToggle(log[i])
            /\ log[i].arg.contentId = c
            /\ log[i].existing # <<>>

\* ---------------------------------------------------------------- C21
\* the records of store d for the tuple of likeData a
TupleOf(d, a) == TupleIds(d, TargetOf(a), a.userUid)

\* C21: for every committed toggleLike whose query result E was still the
\* tuple's set of records when the batch committed (whatever its size and
\* mix): every record of E is gone; the tuple holds exactly one new record,
\* with the requested isLike, if E was empty or held a record with the other
\* isLike, and no record otherwise; likes went down by the like records of E
\* and dislikes by its dislike records, the counter of the requested kind up
\* by one if a record was inserted.
C21_Reconcile ==
  \A i \in 1..Len(log) :
    LET e == log[i]
        pre == e.pre
        post == Post(i)
        t == TargetOf(e.arg)
        E == TupleOf(pre, e.arg)
        r == e.arg.isLike
        nLike == Cardinality({k \in E : pre[LIKES_COLLECTION][k].isLike})
        nDislike == Cardinality({k \in E : ~pre[LIKES_COLLECTION][k].isLike})
        insert == E = {} \/ \E k \in E : pre[LIKES_COLLECTION][k].isLike # r
        after == TupleOf(post, e.arg)
    IN (IsToggle(e) /\ DOMAIN e.existing = E)
       => /\ E \cap DOMAIN post[LIKES_COLLECTION] = {}
          /\ Cardinality(after) = (IF insert THEN 1 ELSE 0)
          /\ \A k \in after : post[LIKES_COLLECTION][k].isLike = r
          /\ ItemDoc(post, t).likes
               = ItemDoc(pre, t).likes - nLike + (IF insert /\ r THEN 1 ELSE 0)
          /\ ItemDoc(post, t).dislikes
               = ItemDoc(pre, t).dislikes - nDislike + (IF insert /\ ~r THEN 1 ELSE 0)

\* a toggle found two records of its tuple, a like and a dislike, both still
\* there when it committed, and left one record
C21_Witness ==
  \E i \in 1..Len(log) :
    /\ IsToggle(log[i])
    /\ DOMAIN log[i].existing = TupleOf(log[i].pre, log[i].arg)
    /\ Cardinality(DOMAIN log[i].existing) = 2
    /\ \E k \in DOMAIN log[i].existing : log[i].existing[k].isLike
    /\ \E k \in DOMAIN log[i].existing : ~log[i].existing[k].isLike
    /\ Cardinality(TupleOf(Post(i), log[i].arg)) = 1

\* ---------------------------------------------------------------- C22
\* C22: in every step, a record of the likes collection that is there before
\* and after the step is the same in every field; a record that appears has
\* an id no record has had before; and the likes collection changes only in
\* the commit of a toggleLike batch.
C22_RecordsImmutable ==
  [][LET old == db[LIKES_COLLECTION]
         new == db'[LIKES_COLLECTION]
     IN /\ \A k \in DOMAIN old \cap DOMAIN new : new[k] = old[k]
        /\ \A k \in DOMAIN new \ DOMAIN old :
             \A j \in 1..Len(log) : k \notin DOMAIN log[j].pre[LIKES_COLLECTION]
        /\ new # old
             => \E s \in Sessions :
                  /\ pc[s] = "commit"
                  /\ op[s] = "toggleLike"
                  /\ result'[s] = "ok"]_vars

\* a like was switched to a dislike: the like's record is gone and the
\* dislike is a record under a later id
C22_Witness ==
  \E i \in 1..Len(log) :
    /\ IsToggle(log[i])
    /\ log[i].existing # <<>>
    /\ log[i].arg.isLike = FALSE
    /\ \E k \in TupleOf(Post(i), log[i].arg) :
         /\ \A o \in DOMAIN log[i].existing : k > o
         /\ Post(i)[LIKES_COLLECTION][k].isLike = FALSE

\* ======================================================================
\* Comments and reactions to them, by concurrent sessions
\* ======================================================================
\* session s comments on the thread as UserIds[s]; any session reacts, as the
\* first user, to the thread or to a comment
NextLog ==
  \/ /\ calls < MaxCalls
     /\ \E s \in Sessions, x \in Texts :
          CreateCommentBuild(s, CommentData(TheThread, UserIds[s], x))
  \/ /\ calls < MaxCalls
     /\ \E s \in Sessions, t \in CommentTargets \cup {TheThread}, b \in BOOLEAN :
          ToggleLikeRead(s, LikeData(t, UserIds[1], b))
  \/ \E s \in Sessions : CommitOk(s)
  \/ \E s \in Sessions : CommitFail(s)

SpecLog == Init /\ [][NextLog]_vars

\* ---------------------------------------------------------------- C23
\* C23: in every step, every stored content item stays stored with a
\* commentCount that is not smaller than before, and every stored comment
\* stays stored with the contentId, contentType, authorUid and text it had.
C23_CommentLogGrows ==
  [][/\ \A col \in ContentCollections : \A id \in DOMAIN db[col] :
          /\ id \in DOMAIN db'[col]
          /\ db'[col][id].commentCount >= db[col][id].commentCount
     /\ \A c \in DOMAIN db[COMMENTS_COLLECTION] :
          /\ c \in DOMAIN db'[COMMENTS_COLLECTION]
          /\ \A f \in {"contentId", "contentType", "authorUid", "text"} :
               db'[COMMENTS_COLLECTION][c][f] = db[COMMENTS_COLLECTION][c][f]]_vars

\* two comments by two authors are stored and counted, and one of them has
\* been liked: its document was updated and still has its author and text
C23_Witness ==
  /\ db[THREADS_COLLECTION][ThreadId].commentCount = 2
  /\ {db[COMMENTS_COLLECTION][c].authorUid : c \in DOMAIN db[COMMENTS_COLLECTION]}
       = {UserIds[1], UserIds[2]}
  /\ \E c \in DOMAIN db[COMMENTS_COLLECTION] :
       /\ db[COMMENTS_COLLECTION][c].likes = 1
       /\ db[COMMENTS_COLLECTION][c].updatedAt > db[COMMENTS_COLLECTION][c].createdAt

\* ---------------------------------------------------------------- C24
\* y is x without its leading and trailing whitespace
IsTrimOf(y, x) ==
  \E i \in 1..(Len(x) + 1), j \in 0..Len(x) :
    /\ y = SubSeq(x, i, j)
    /\ \A k \in 1..(i - 1) : IsSpace(x[k])
    /\ \A k \in (j + 1)..Len(x) : IsSpace(x[k])
    /\ y # <<>> => ~IsSpace(y[1]) /\ ~IsSpace(y[Len(y)])

\* C24: an addComment that reaches the store hands it the input text without
\* its leading and trailing whitespace, and queues exactly that text for the
\* comment document; and every stored comment has a text that is not empty,
\* not whitespace only, and neither starts nor ends with whitespace.
C24_TextTrimmed ==
  [][/\ \A t \in ApiTargets, text \in ApiTexts, parent \in ParentCommentIds :
          (addComment(TheClient, t, text, parent) /\ pc'[TheClient] = "commit")
          => /\ IsTrimOf(arg'[TheClient].text, text)
             /\ batch'[TheClient][1].data.text = arg'[TheClient].text
     /\ \A c \in DOMAIN db'[COMMENTS_COLLECTION] :
          LET x == db'[COMMENTS_COLLECTION][c].text
          IN /\ ~IsBlank(x)
             /\ ~IsSpace(x[1])
             /\ ~IsSpace(x[Len(x)])]_vars

\* comments were stored through addComment, one of them with the text "a"
C24_Witness ==
  \E c \in DOMAIN db[COMMENTS_COLLECTION] :
    /\ db[COMMENTS_COLLECTION][c].text = <<"a">>
    /\ db[COMMENTS_COLLECTION][c].parentCommentId # Undefined
    /\ db[COMMENTS_COLLECTION][c].authorUid = UserIds[1]

\* ======================================================================
\* Reactions of two users to the thread, the video and comments
\* ======================================================================
NextFrame ==
  \/ /\ calls < MaxSeqCalls
     /\ Quiescent
     /\ \E x \in Texts : CreateCommentBuild(TheClient, CommentData(TheThread, UserIds[1], x))
  \/ /\ calls < MaxSeqCalls
     /\ Quiescent
     /\ \E t \in CommentTargets \cup {TheThread, TheVideo},
           u \in {UserIds[1], UserIds[2]}, b \in BOOLEAN :
          ToggleLikeRead(TheClient, LikeData(t, u, b))
  \/ CommitOk(TheClient)
  \/ CommitFail(TheClient)

SpecFrame == Init /\ [][NextFrame]_vars

\* ---------------------------------------------------------------- C25
\* the step is the commit of a toggleLike batch of the client
ToggleCommits == pc[TheClient] = "commit" /\ op[TheClient] = "toggleLike"

\* what a toggle by arg[TheClient].userUid on the target of arg[TheClient]
\* leaves alone outside the comments collection: the records of other users
\* and of other items, the commentCount of the target, and the documents of
\* every other thread, video and reel
FrameOutsideComments ==
  LET a == arg[TheClient]
  IN /\ \A k \in DOMAIN db[LIKES_COLLECTION] :
          (\/ db[LIKES_COLLECTION][k].userUid # a.userUid
           \/ db[LIKES_COLLECTION][k].contentId # a.contentId
           \/ db[LIKES_COLLECTION][k].contentType # a.contentType)
          => /\ k \in DOMAIN db'[LIKES_COLLECTION]
             /\ db'[LIKES_COLLECTION][k] = db[LIKES_COLLECTION][k]
     /\ \A col \in ContentCollections : \A id \in DOMAIN db[col] :
          /\ id \in DOMAIN db'[col]
          /\ db'[col][id].commentCount = db[col][id].commentCount
          /\ (col # contentCollections[a.contentType] \/ id # a.contentId)
               => db'[col][id] = db[col][id]

\* C25 as stated: a toggle step leaves alone all of the above and the whole
\* comments collection.
C25_FrameWholeLog ==
  [][ToggleCommits => FrameOutsideComments /\ db'[COMMENTS_COLLECTION] = db[COMMENTS_COLLECTION]]_vars

\* C25, amended: a toggle step leaves alone all of the above; it leaves the
\* comments collection alone when its target is a thread, video or reel; and
\* when its target is a comment, every other comment is left alone and the
\* target keeps every field but likes, dislikes and updatedAt.
C25_Frame ==
  [][ToggleCommits
     => LET a == arg[TheClient]
            old == db[COMMENTS_COLLECTION]
            new == db'[COMMENTS_COLLECTION]
        IN /\ FrameOutsideComments
           /\ a.contentType # "comment" => new = old
           /\ DOMAIN new = DOMAIN old
           /\ \A c \in DOMAIN old :
                /\ c # a.contentId => new[c] = old[c]
                /\ \A f \in DOMAIN old[c] \ {"likes", "dislikes", "updatedAt"} :
                     new[c][f] = old[c][f]]_vars

\* one user disliked a comment while the other user's like of the thread and
\* the comment's count on the thread stayed as they were
C25_Witness ==
  /\ Quiescent
  /\ Counters(db[THREADS_COLLECTION][ThreadId]) = <<1, 0, 1>>
  /\ \E k \in DOMAIN db[LIKES_COLLECTION] :
       /\ db[LIKES_COLLECTION][k].contentType = "thread"
       /\ db[LIKES_COLLECTION][k].userUid = UserIds[2]
  /\ \E k \in DOMAIN db[LIKES_COLLECTION] :
       /\ db[LIKES_COLLECTION][k].contentType = "comment"
       /\ db[LIKES_COLLECTION][k].userUid = UserIds[1]
       /\ ~db[LIKES_COLLECTION][k].isLike
       /\ db[COMMENTS_COLLECTION][db[LIKES_COLLECTION][k].contentId].dislikes = 1

\* ---------------------------------------------------------------- C26
\* the document a likeData / commentData a names is in store d
TargetStored(d, a) == a.contentId \in DOMAIN d[contentCollections[a.contentType]]

\* C26: every record of the likes and comments collections references a
\* stored item; every committed batch was aimed at an item that was stored
\* when it committed; and a batch in flight that is aimed at an item that is
\* not stored cannot commit.
C26_NoOrphans ==
  /\ \A k \in DOMAIN db[LIKES_COLLECTION] : TargetStored(db, db[LIKES_COLLECTION][k])
  /\ \A c \in DOMAIN db[COMMENTS_COLLECTION] : TargetStored(db, db[COMMENTS_COLLECTION][c])
  /\ \A i \in 1..Len(log) : TargetStored(log[i].pre, log[i].arg)
  /\ \A s \in Sessions :
       (pc[s] = "commit" /\ ~TargetStored(db, arg[s])) => ~CanCommit(db, batch[s])

\* while a like of the thread is stored, a batch that inserts a record for
\* the missing reel awaits its commit, and the store will reject it
C26_Witness ==
  /\ Len(log) >= 1
  /\ db[LIKES_COLLECTION] # <<>>
  /\ \E s \in Sessions :
       /\ pc[s] = "commit"
       /\ TargetOf(arg[s]) = NoReel
       /\ HasSet(batch[s])
       /\ ~CanCommit(db, batch[s])

\* ======================================================================
\* One client that signs in under one uid, out, and in under another
\* ======================================================================
NextIdentity ==
  \/ \E u \in {UserIds[1], UserIds[2]} : signInAnonymouslyUser(TheClient, u)
  \/ signOutUser(TheClient)
  \/ /\ calls < MaxApiCalls
     /\ likeContent(TheClient, TheThread)
  \/ /\ calls < MaxApiCalls
     /\ dislikeContent(TheClient, TheThread)
  \/ /\ calls < MaxApiCalls
     /\ \E parent \in ParentCommentIds : addComment(TheClient, TheThread, <<"a">>, parent)
  \/ CommitOk(TheClient)
  \/ CommitFail(TheClient)

SpecIdentity == Init /\ [][NextIdentity]_vars

\* ---------------------------------------------------------------- C27
\* C27: a step that puts a call of the client in flight gives it the uid that
\* is signed in at that step; and the commit of a call writes under that uid
\* only, whoever is signed in by then: a reaction record that appears, goes
\* or changes carries the call's uid, and a comment that appears has it as
\* authorUid.
C27_IdentityBinding ==
  [][/\ (pc[TheClient] = "idle" /\ pc'[TheClient] = "commit")
          => /\ currentUser[TheClient] # NoUser
             /\ UserOf(arg'[TheClient]) = currentUser[TheClient]
     /\ LET old == db[LIKES_COLLECTION]
            new == db'[LIKES_COLLECTION]
        IN /\ \A k \in DOMAIN old :
                (k \notin DOMAIN new \/ new[k] # old[k])
                => pc[TheClient] = "commit" /\ old[k].userUid = UserOf(arg[TheClient])
           /\ \A k \in DOMAIN new \ DOMAIN old :
                pc[TheClient] = "commit" /\ new[k].userUid = UserOf(arg[TheClient])
     /\ \A c \in DOMAIN db'[COMMENTS_COLLECTION] \ DOMAIN db[COMMENTS_COLLECTION] :
          /\ pc[TheClient] = "commit"
          /\ db'[COMMENTS_COLLECTION][c].authorUid = UserOf(arg[TheClient])]_vars

\* the thread holds a reaction of each of the two uids, and nobody is signed
\* in: the second call was committed after its user had signed out
C27_Witness ==
  /\ {db[LIKES_COLLECTION][k].userUid : k \in DOMAIN db[LIKES_COLLECTION]}
       = {UserIds[1], UserIds[2]}
  /\ Cardinality(DOMAIN db[LIKES_COLLECTION]) = 2
  /\ currentUser[TheClient] = NoUser
  /\ result[TheClient] = "ok"
  /\ calls = 2

\* ---------------------------------------------------------------- C28
\* the records of store d that reference document id of collection col
RecordsOn(d, col, id) ==
  {k \in DOMAIN d[LIKES_COLLECTION] :
     /\ d[LIKES_COLLECTION][k].contentId = id
     /\ contentCollections[d[LIKES_COLLECTION][k].contentType] = col}
  \cup
  {c \in DOMAIN d[COMMENTS_COLLECTION] :
     /\ d[COMMENTS_COLLECTION][c].contentId = id
     /\ contentCollections[d[COMMENTS_COLLECTION][c].contentType] = col}

\* C28: a thread, video or reel that a step adds to the store has likes,
\* dislikes and commentCount 0, createdAt and updatedAt the time of the
\* step, an id that no document and no record of the store had before, and
\* no reaction or comment record of the new store references it.
C28_CreatedEmpty ==
  [][\A col \in ContentCollections : \A id \in DOMAIN db'[col] \ DOMAIN db[col] :
       /\ Counters(db'[col][id]) = <<0, 0, 0>>
       /\ db'[col][id].createdAt = now'
       /\ db'[col][id].updatedAt = now'
       /\ RecordsOn(db', col, id) = {}
       /\ id \notin DOMAIN db[LIKES_COLLECTION] \cup DOMAIN db[COMMENTS_COLLECTION]
       /\ \A other \in ContentCollections : id \notin DOMAIN db[other]]_vars

\* a video was created while the thread already had a reaction and a
\* comment: the records stay on the thread, none is on the new video
C28_Witness ==
  /\ RecordsOn(db, THREADS_COLLECTION, ThreadId) # {}
  /\ db[COMMENTS_COLLECTION] # <<>>
  /\ db[LIKES_COLLECTION] # <<>>
  /\ \E id \in DOMAIN db[VIDEOS_COLLECTION] :
       /\ id # VideoId
       /\ \A k \in DOMAIN db[LIKES_COLLECTION] \cup DOMAIN db[COMMENTS_COLLECTION] : k < id
       /\ RecordsOn(db, VIDEOS_COLLECTION, id) = {}
       /\ Counters(db[VIDEOS_COLLECTION][id]) = <<0, 0, 0>>

\* ---------------------------------------------------------------- C29
\* C29: whenever the identity provider signs a uid in, the call succeeds and
\* afterwards a profile document for that uid is stored; a profile that was
\* stored before the call is left as it was.
C29_ProfileCreated ==
  [][(currentUser'[TheClient] # currentUser[TheClient] /\ currentUser'[TheClient] # NoUser)
       => /\ result'[TheClient] = "ok"
          /\ currentUser'[TheClient] \in DOMAIN db'[USERS_COLLECTION]
          /\ \A u \in DOMAIN db[USERS_COLLECTION] :
               /\ u \in DOMAIN db'[USERS_COLLECTION]
               /\ db'[USERS_COLLECTION][u] = db[USERS_COLLECTION][u]]_vars

====
